---- MODULE Spec2Model ----
(***************************************************************************)
(* Stroke Scribbler (src/lib/main.py): the StrokeFlattener pen, the weave  *)
(* loop of StrokeScribblerDrawingBot.draw, the draw pipeline, the group    *)
(* bookkeeping of StrokeScribblerWindowController and the events the two   *)
(* objects post to each other.                                             *)
(*                                                                         *)
(* Points are exact rationals <<nx, ny, d>> (nx/d, ny/d) in lowest terms,  *)
(* so that equality of points is equality of values.  Contour points are   *)
(* integer points <<x, y, 1>>.  The one place where the float arithmetic   *)
(* of the code decides an equality is the last point of a flattened        *)
(* segment (factor * step for factor = steps): see InexactSteps.           *)
(***************************************************************************)
EXTENDS Integers, Sequences, FiniteSets, TLC

VARIABLES
    pen,        \* SpecPen: the StrokeFlattener instance
    phase,      \* SpecPen: "new" | "open" | "done" (pen protocol position)
    drawn,      \* SpecPen: the pen calls made so far (the contour being drawn)
    wv,         \* SpecWeave: inputs and result of the weave loop
    glyph,      \* SpecDraw: the glyph of the editor: its contours and lib[KEY]
    bot,        \* SpecDraw: the fields of StrokeScribblerDrawingBot
    last,       \* SpecDraw: what the latest handler run did
    pg,         \* SpecPerlin: a glyph handed to perlinGlyph, before and after
    nf,         \* SpecNoise: a PerlinNoiseFactory instance and its latest call
    wc,         \* SpecGroups, SpecEvents: the StrokeScribblerWindowController
    ev          \* SpecEvents: the low-level events posted and not yet delivered

vars == <<pen, phase, drawn, wv, glyph, bot, last, pg, nf, wc, ev>>

(***************************************************************************)
(* Bounds of the model.                                                    *)
(***************************************************************************)
MaxOps == 2        \* line/curve calls made on one pen in SpecPen
MaxKey == 2        \* largest key of a supplied Reference step map in SpecPen

(***************************************************************************)
(* Values.                                                                 *)
(***************************************************************************)
None == <<>>

Abs(x) == IF x < 0 THEN -x ELSE x

RECURSIVE GCD(_, _)
GCD(a, b) == IF b = 0 THEN a ELSE GCD(b, a % b)

Norm(nx, ny, d) ==
    LET g == GCD(GCD(Abs(nx), Abs(ny)), d)
    IN  <<nx \div g, ny \div g, d \div g>>

Pt(x, y) == <<x, y, 1>>

\* the contour points of the model and the off-curve control point
Pts == {Pt(0, 0), Pt(1, 0), Pt(4, 3)}
Ctl == Pt(2, 2)

\* Distance settings (the Distance slider delivers integers)
Dists == {2, 4}

\* values estimateCubicCurveLength returns for the curves of the model
CurveLens == {1, 6}

(***************************************************************************)
(* fontPens.penTools helpers used by the flattener.                        *)
(***************************************************************************)
\* step = 1.0 / steps; factor * step: the step counts n up to 200 for which
\* the double n * (1.0 / n) is 0.9999999999999999 and not 1.0
InexactSteps == {49, 98, 103, 107, 161, 187, 196, 197}

\* the double pt1 + (pt2 - pt1) * 0.9999999999999999: a value next to pt2,
\* kept as the pair (pt2, pt1).  It differs from pt2 for the points of the
\* model that are that many steps apart, e.g. (0, 0) and (245, 0) give
\* (244.99999999999997, 0.0) and (2.842170943040401e-14, 0.0).
NearPt(pt1, pt2) == pt2 \o pt1

\* interpolatePoint(pt1, pt2, v) with v = k * (1.0 / n)
interpolatePoint(pt1, pt2, k, n) ==
    LET a == pt1[3]  b == pt2[3]
    IN  IF k = n /\ n \in InexactSteps /\ pt1 # pt2
        THEN NearPt(pt1, pt2)
        ELSE Norm(pt1[1] * b * n + (pt2[1] * a - pt1[1] * b) * k,
                  pt1[2] * b * n + (pt2[2] * a - pt1[2] * b) * k,
                  a * b * n)

\* getCubicPoint(t, pt0, pt1, pt2, pt3) with t = k * (1.0 / n), integer points
getCubicPoint(k, n, pt0, pt1, pt2, pt3) ==
    LET cx == (pt1[1] - pt0[1]) * 3
        cy == (pt1[2] - pt0[2]) * 3
        bx == (pt2[1] - pt1[1]) * 3 - cx
        by == (pt2[2] - pt1[2]) * 3 - cy
        ax == pt3[1] - pt0[1] - cx - bx
        ay == pt3[2] - pt0[2] - cy - by
    IN  Norm(pt0[1] * n * n * n + cx * k * n * n + bx * k * k * n + ax * k * k * k,
             pt0[2] * n * n * n + cy * k * n * n + by * k * k * n + ay * k * k * k,
             n * n * n)

\* distance(pt1, pt2) squared, integer points
distance2(pt1, pt2) ==
    (pt1[1] - pt2[1]) * (pt1[1] - pt2[1]) + (pt1[2] - pt2[2]) * (pt1[2] - pt2[2])

\* int(round(sqrt(d2) / L)): Python 3 rounds halves to the even integer
RoundSqrtOver(d2, L) ==
    LET up == CHOOSE n \in 0..(d2 + 1) :
                  /\ (n = 0 \/ (2 * n - 1) * (2 * n - 1) * L * L <= 4 * d2)
                  /\ (2 * n + 1) * (2 * n + 1) * L * L > 4 * d2
        tie == up >= 1 /\ (2 * up - 1) * (2 * up - 1) * L * L = 4 * d2
    IN  IF tie /\ up % 2 = 1 THEN up - 1 ELSE up

\* int(round(len / L))
RoundOver(len, L) ==
    LET q == len \div L
        r == len % L
    IN  IF 2 * r < L THEN q
        ELSE IF 2 * r > L THEN q + 1
        ELSE IF q % 2 = 0 THEN q ELSE q + 1

(***************************************************************************)
(* StrokeFlattener.                                                        *)
(* approximateSegmentLength is [kind |-> "int", val |-> d] or              *)
(* [kind |-> "dict", val |-> map]; a map is a function from segment        *)
(* indexes to step counts.  otherPen records the calls made on the output  *)
(* pen, each with the value self.index had when it was made.               *)
(***************************************************************************)
IntLen(d) == [kind |-> "int", val |-> d]
DictLen(m) == [kind |-> "dict", val |-> m]

EmptyMap == [k \in {} |-> 0]
MapPut(m, k, v) == [x \in (DOMAIN m) \cup {k} |-> IF x = k THEN v ELSE m[x]]

Call(op, pt, idx) == [op |-> op, pt |-> pt, idx |-> idx]

StrokeFlattener(approximateSegmentLength) ==
    [reference |-> (approximateSegmentLength.kind = "dict"),
     approximateSegmentLength |-> approximateSegmentLength,
     otherPen |-> <<>>,
     currentPt |-> None,
     firstPt |-> None,
     filterDoubles |-> TRUE,
     index |-> 0,
     segmentRefrenceMap |-> EmptyMap,
     error |-> "none"]

_moveTo(self, pt) ==
    [self EXCEPT !.otherPen = Append(@, Call("moveTo", pt, self.index)),
                 !.currentPt = pt,
                 !.firstPt = pt]

\* the for loop of the line branches: steps interpolated points
LinePointsShort(self, pt, steps) ==
    [f \in 1..(steps - 1) |->
        Call("lineTo", interpolatePoint(self.currentPt, pt, f, steps), self.index)]
LinePoints(self, pt, steps) ==
    [f \in 1..steps |-> Call("lineTo", interpolatePoint(self.currentPt, pt, f, steps), self.index)]

\* the for loop of the curve branches
CurvePoints(self, pt1, pt2, pt3, steps) ==
    [f \in 1..steps |->
        Call("lineTo", getCubicPoint(f, steps, self.currentPt, pt1, pt2, pt3), self.index)]

\* lines 187-201: the Distance branch of _lineTo, self.index already advanced
LineDistanceRecordsClamped(self, pt) ==
    LET maxSteps == RoundSqrtOver(distance2(self.currentPt, pt),
                                  self.approximateSegmentLength.val)
    IN  IF maxSteps < 1
        THEN [self EXCEPT !.otherPen = Append(@, Call("lineTo", pt, self.index)),
                          !.currentPt = pt,
                          !.segmentRefrenceMap = MapPut(@, self.index, maxSteps)]
        ELSE [self EXCEPT !.otherPen = @ \o LinePoints(self, pt, maxSteps),
                          !.currentPt = pt,
                          !.segmentRefrenceMap = MapPut(@, self.index, maxSteps)]
LineDistance(self, pt) ==
    LET maxSteps == RoundSqrtOver(distance2(self.currentPt, pt),
                                  self.approximateSegmentLength.val)
    IN  IF maxSteps < 1
        THEN [self EXCEPT !.otherPen = Append(@, Call("lineTo", pt, self.index)),
                          !.currentPt = pt]
        ELSE [self EXCEPT !.otherPen = @ \o LinePoints(self, pt, maxSteps),
                          !.currentPt = pt,
                          !.segmentRefrenceMap = MapPut(@, self.index, maxSteps)]

\* lines 180-185: the Reference branch of _lineTo, self.index already advanced
LineReferenceDefault(self, pt) ==
    LET map == self.approximateSegmentLength.val
        steps == IF self.index \in DOMAIN map THEN map[self.index] ELSE 1
    IN  [self EXCEPT !.otherPen = @ \o LinePoints(self, pt, steps),
                     !.currentPt = pt]
LineReference(self, pt) ==
    LET map == self.approximateSegmentLength.val
    IN  IF self.index \notin DOMAIN map
        THEN [self EXCEPT !.error = "KeyError"]
        ELSE IF map[self.index] = 0
        THEN [self EXCEPT !.error = "ZeroDivisionError"]
        ELSE [self EXCEPT !.otherPen = @ \o LinePoints(self, pt, map[self.index]),
                          !.currentPt = pt]

_lineToUnfiltered(self, pt) ==
    LET s == [self EXCEPT !.index = @ + 1]
    IN  IF s.reference THEN LineReference(s, pt) ELSE LineDistance(s, pt)
_lineTo(self, pt) ==
    IF self.filterDoubles /\ pt = self.currentPt
    THEN self
    ELSE LET s == [self EXCEPT !.index = @ + 1]
         IN  IF s.reference THEN LineReference(s, pt) ELSE LineDistance(s, pt)

\* lines 226-240: the Distance branch of _curveToOne
CurveDistance(self, pt1, pt2, pt3, len) ==
    LET maxSteps == RoundOver(len, self.approximateSegmentLength.val)
    IN  IF maxSteps < 1
        THEN [self EXCEPT !.otherPen = Append(@, Call("lineTo", pt3, self.index)),
                          !.currentPt = pt3]
        ELSE [self EXCEPT !.otherPen = @ \o CurvePoints(self, pt1, pt2, pt3, maxSteps),
                          !.currentPt = pt3,
                          !.segmentRefrenceMap = MapPut(@, self.index, maxSteps)]

\* lines 213-224: the Reference branch of _curveToOne
CurveReferenceRecording(self, pt1, pt2, pt3) ==
    LET map == self.approximateSegmentLength.val
    IN  IF self.index \notin DOMAIN map
        THEN [self EXCEPT !.error = "KeyError"]
        ELSE IF map[self.index] = 0
        THEN [self EXCEPT !.error = "ZeroDivisionError"]
        ELSE [self EXCEPT !.otherPen = @ \o CurvePoints(self, pt1, pt2, pt3, map[self.index]),
                          !.currentPt = pt3,
                          !.segmentRefrenceMap = MapPut(@, self.index, map[self.index])]
CurveReference(self, pt1, pt2, pt3) ==
    LET map == self.approximateSegmentLength.val
        falseCurve == (pt1 = self.currentPt) /\ (pt2 = pt3)
    IN  IF falseCurve
        THEN _lineTo(self, pt3)
        ELSE IF self.index \notin DOMAIN map
        THEN [self EXCEPT !.error = "KeyError"]
        ELSE IF map[self.index] = 0
        THEN [self EXCEPT !.error = "ZeroDivisionError"]
        ELSE [self EXCEPT !.otherPen = @ \o CurvePoints(self, pt1, pt2, pt3, map[self.index]),
                          !.currentPt = pt3]

\* len is the value estimateCubicCurveLength returns for this curve
_curveToOneIndexFirst(self, pt1, pt2, pt3, len) ==
    LET s == [self EXCEPT !.index = @ + 1]
    IN  IF s.reference
        THEN CurveReference(s, pt1, pt2, pt3)
        ELSE IF (pt1 = self.currentPt) /\ (pt2 = pt3)
        THEN _lineTo(s, pt3)
        ELSE CurveDistance(s, pt1, pt2, pt3, len)
_curveToOne(self, pt1, pt2, pt3, len) ==
    LET falseCurve == (pt1 = self.currentPt) /\ (pt2 = pt3)
    IN  IF falseCurve
        THEN _lineTo(self, pt3)
        ELSE LET s == [self EXCEPT !.index = @ + 1]
             IN  IF s.reference
                 THEN CurveReference(s, pt1, pt2, pt3)
                 ELSE CurveDistance(s, pt1, pt2, pt3, len)

_closePathNoLine(self) ==
    [self EXCEPT !.otherPen = Append(@, Call("closePath", None, self.index)),
                 !.currentPt = None]
_closePath(self) ==
    LET s == _lineTo(self, self.firstPt)
    IN  IF s.error # "none"
        THEN s
        ELSE [s EXCEPT !.otherPen = Append(@, Call("closePath", None, s.index)),
                       !.currentPt = None]

_endPath(self) ==
    [self EXCEPT !.otherPen = Append(@, Call("endPath", None, self.index)),
                 !.currentPt = None]

(***************************************************************************)
(* Pen calls as values, and a contour as the sequence of pen calls its     *)
(* draw(pen) makes: one moveTo, line/curve segments, closePath or endPath. *)
(***************************************************************************)
Seg(op, pt1, pt2, pt3, len) == [op |-> op, pt1 |-> pt1, pt2 |-> pt2, pt3 |-> pt3, len |-> len]
MoveSeg(pt) == Seg("moveTo", None, None, pt, 0)
LineSeg(pt) == Seg("lineTo", None, None, pt, 0)
CurveSeg(pt1, pt2, pt3, len) == Seg("curveTo", pt1, pt2, pt3, len)
CloseSeg == Seg("closePath", None, None, None, 0)
EndSeg == Seg("endPath", None, None, None, 0)

\* BasePen dispatch of one call; nothing runs after an exception
Apply(self, seg) ==
    IF self.error # "none" THEN self
    ELSE IF seg.op = "moveTo" THEN _moveTo(self, seg.pt3)
    ELSE IF seg.op = "lineTo" THEN _lineTo(self, seg.pt3)
    ELSE IF seg.op = "curveTo" THEN _curveToOne(self, seg.pt1, seg.pt2, seg.pt3, seg.len)
    ELSE IF seg.op = "closePath" THEN _closePath(self)
    ELSE _endPath(self)

(***************************************************************************)
(* SpecPen: one flattener instance driven by an arbitrary contour.         *)
(***************************************************************************)
\* the step maps a Distance flattening can hand over: keys are the indexes
\* of the segments that were not clamped, values are step counts >= 1
RefMaps ==
    UNION {[K -> 1..2] : K \in SUBSET (1..MaxKey)}

PenInputs ==
    {IntLen(d) : d \in Dists} \cup {DictLen(m) : m \in RefMaps}

\* number of line/curve calls made so far
NumSegs(calls) == Cardinality({i \in DOMAIN calls : calls[i].op \in {"lineTo", "curveTo"}})

PenInit ==
    /\ pen \in {StrokeFlattener(a) : a \in PenInputs}
    /\ phase = "new"
    /\ drawn = <<>>
    /\ wv = None
    /\ glyph = None /\ bot = None /\ last = None
    /\ pg = None /\ nf = None
    /\ wc = None /\ ev = None

PenCall(seg) ==
    /\ pen' = Apply(pen, seg)
    /\ drawn' = Append(drawn, seg)
    /\ UNCHANGED <<wv, glyph, bot, last, pg, nf, wc, ev>>

PenMoveTo ==
    /\ phase = "new"
    /\ \E pt \in Pts : PenCall(MoveSeg(pt))
    /\ phase' = "open"

PenLineTo ==
    /\ phase = "open" /\ pen.error = "none" /\ NumSegs(drawn) < MaxOps
    /\ \E pt \in Pts : PenCall(LineSeg(pt))
    /\ phase' = "open"

PenCurveTo ==
    /\ phase = "open" /\ pen.error = "none" /\ NumSegs(drawn) < MaxOps
    /\ \E pt1 \in {pen.currentPt, Ctl}, pt3 \in Pts, len \in CurveLens :
         \E pt2 \in {pt3, Ctl} : PenCall(CurveSeg(pt1, pt2, pt3, len))
    /\ phase' = "open"

PenClosePath ==
    /\ phase = "open" /\ pen.error = "none"
    /\ PenCall(CloseSeg)
    /\ phase' = "done"

PenEndPath ==
    /\ phase = "open" /\ pen.error = "none"
    /\ PenCall(EndSeg)
    /\ phase' = "done"

PenNext == PenMoveTo \/ PenLineTo \/ PenCurveTo \/ PenClosePath \/ PenEndPath

SpecPen == PenInit /\ [][PenNext]_vars

(***************************************************************************)
(* contour.draw(pen): the pen calls of a contour, in order.                *)
(***************************************************************************)
RECURSIVE Run(_, _)
Run(self, segs) ==
    IF segs = <<>> THEN self ELSE Run(Apply(self, Head(segs)), Tail(segs))

\* the sampled points a pen emitted for segment index k
Sampled(self, k) ==
    {i \in DOMAIN self.otherPen : self.otherPen[i].op = "lineTo" /\ self.otherPen[i].idx = k}

RECURSIVE SumMap(_, _)
SumMap(m, K) ==
    IF K = {} THEN 0
    ELSE LET k == CHOOSE x \in K : TRUE IN m[k] + SumMap(m, K \ {k})

(***************************************************************************)
(* Properties of the flattener (SpecPen).                                  *)
(***************************************************************************)
InPen == phase \in {"new", "open", "done"}

NumSampled(self) ==
    Cardinality({i \in DOMAIN self.otherPen : self.otherPen[i].op = "lineTo"})

LastOf(S) == CHOOSE i \in S : \A j \in S : j <= i

\* the pen after the first j calls of the contour drawn so far
PenAfter(j) == Run(StrokeFlattener(pen.approximateSegmentLength), SubSeq(drawn, 1, j))

\* the endpoint of the segment that advanced the index to k
SegEnd(k) ==
    LET j == CHOOSE x \in 1..Len(drawn) :
                 PenAfter(x).index = k /\ PenAfter(x - 1).index = k - 1
    IN  IF drawn[j].op = "closePath" THEN drawn[1].pt3 ELSE drawn[j].pt3

\* C2 as stated: in Distance mode the step map has exactly one entry for
\* every segment that advanced the index (keys are exactly 1..index), a
\* clamped segment being recorded with the one point it emitted.
C2_OneEntryPerSegment ==
    (InPen /\ ~pen.reference)
        => /\ DOMAIN pen.segmentRefrenceMap = 1..pen.index
           /\ \A k \in 1..pen.index :
                  pen.segmentRefrenceMap[k] = Cardinality(Sampled(pen, k))

C9_FailsWhenCountsDiffer ==
    (InPen /\ pen.reference /\ phase = "done"
       /\ pen.index # Cardinality(DOMAIN pen.approximateSegmentLength.val))
        => pen.error = "KeyError"

\* C9 amended: with a step map of entries 1..n, Reference-mode flattening
\* fails with a lookup error exactly when the contour has more segments that
\* advance the index than n; a contour with fewer segments is flattened
\* without error and emits the points of the first entries only.
C9_FailsOnlyWhenMoreSegments ==
    (InPen /\ pen.reference)
        => LET map == pen.approximateSegmentLength.val
               n == Cardinality(DOMAIN map)
           IN  (DOMAIN map = 1..n)
                 => /\ (pen.index > n) => (pen.error = "KeyError")
                    /\ (pen.index <= n) => (pen.error = "none")
                    /\ (phase = "done" /\ pen.error = "none")
                          => NumSampled(pen) = SumMap(map, 1..pen.index)

\* a contour of one segment flattened with a map of two entries
C9_Witness ==
    /\ InPen /\ pen.reference /\ phase = "done" /\ pen.error = "none"
    /\ DOMAIN pen.approximateSegmentLength.val = 1..2
    /\ pen.index = 1 /\ NumSampled(pen) = pen.approximateSegmentLength.val[1]

(***************************************************************************)
(* The weave of StrokeScribblerDrawingBot.draw, lines 1005-1029.           *)
(***************************************************************************)
MinOffset == 0
MaxOffset == 4

\* lines 1005-1006: if side: ps1, ps2 = ps2, ps1
SideRolesKept(side, ps1, ps2) == <<ps1, ps2>>
SideRoles(side, ps1, ps2) == IF side # 0 THEN <<ps2, ps1>> ELSE <<ps1, ps2>>

\* lines 1022-1029: one iteration of the loop, i is the 0-based index
WeaveStepFlipped(it, ps1, ps2, offset, i) ==
    IF i + offset < Len(ps2)
    THEN it \o <<ps1[i + 1], ps2[i + offset + 1]>>
    ELSE it
WeaveStepNoGuard(it, ps1, ps2, offset, i) ==
    IF i + offset < Len(ps2)
    THEN it \o <<ps2[i + offset + 1], ps1[i + 1]>>
    ELSE Append(it, ps1[i + 1])
WeaveStepWrapped(it, ps1, ps2, offset, i) ==
    it \o <<ps2[((i + offset) % Len(ps2)) + 1], ps1[i + 1]>>
WeaveStep(it, ps1, ps2, offset, i) ==
    IF i + offset < Len(ps2)
    THEN it \o <<ps2[i + offset + 1], ps1[i + 1]>>
    ELSE it

RECURSIVE WeaveLoop(_, _, _, _, _)
WeaveLoop(it, ps1, ps2, offset, i) ==
    IF i >= Len(ps1) THEN it
    ELSE WeaveLoop(WeaveStep(it, ps1, ps2, offset, i), ps1, ps2, offset, i + 1)

\* lines 1017-1029: it starts with ps1[0], the point of pen.moveTo
WeaveFromSecond(ps1, ps2, offset) == WeaveLoop(<<ps1[1]>>, ps1, ps2, offset, 1)
Weave(ps1, ps2, offset) == WeaveLoop(<<ps1[1]>>, ps1, ps2, offset, 0)

\* lines 1005-1029
SideWeave(psA, psB, offset, side) ==
    LET r == SideRoles(side, psA, psB) IN Weave(r[1], r[2], offset)

(***************************************************************************)
(* The preview path of a group, lines 1008-1031: the calls made on the pen *)
(* of the squiggle sublayer by the statements that also fill the list it.  *)
(***************************************************************************)
\* lines 1022-1029: ops = ps2[i + offset]; pen.lineTo(ops); pen.lineTo(ps)
PreviewStep(path, ps1, ps2, offset, i) ==
    IF i + offset < Len(ps2)
    THEN path \o <<Call("lineTo", ps2[i + offset + 1], 0), Call("lineTo", ps1[i + 1], 0)>>
    ELSE path

RECURSIVE PreviewLoop(_, _, _, _, _)
PreviewLoop(path, ps1, ps2, offset, i) ==
    IF i >= Len(ps1) THEN path
    ELSE PreviewLoop(PreviewStep(path, ps1, ps2, offset, i), ps1, ps2, offset, i + 1)

\* lines 1018-1031: pen.moveTo(ps1[0]), the loop, pen.endPath()
PreviewPath(ps1, ps2, offset) ==
    Append(PreviewLoop(<<Call("moveTo", ps1[1], 0)>>, ps1, ps2, offset, 0),
           Call("endPath", None, 0))

SidePreview(psA, psB, offset, side) ==
    LET r == SideRoles(side, psA, psB) IN PreviewPath(r[1], r[2], offset)

(***************************************************************************)
(* StrokeScribblerWindowController.generateCallback, lines 842-855: the    *)
(* pen calls made on the cleared drawing layer, one list per stroke.       *)
(***************************************************************************)
GenerateStrokeClosed(gs) ==
    <<Call("moveTo", gs[1], 0)>>
        \o [k \in 1..(Len(gs) - 1) |-> Call("lineTo", gs[k + 1], 0)]
        \o <<Call("closePath", None, 0)>>
GenerateStroke(gs) ==
    <<Call("moveTo", gs[1], 0)>>
        \o [k \in 1..(Len(gs) - 1) |-> Call("lineTo", gs[k + 1], 0)]
        \o <<Call("endPath", None, 0)>>

generateCallback(contours) == [i \in 1..Len(contours) |-> GenerateStroke(contours[i])]

(***************************************************************************)
(* SpecWeave: the weave applied to two polylines.                          *)
(***************************************************************************)
MaxLen == 4        \* longest polyline woven in SpecWeave

WeavePts == {Pt(0, 0), Pt(1, 0)}
Polylines == UNION {[1..n -> WeavePts] : n \in 1..MaxLen}

WeaveInit ==
    /\ wv \in [psA : Polylines, psB : Polylines, offset : MinOffset..MaxOffset,
               side : {0, 1}, it : {<<>>}, done : {FALSE},
               path : {<<>>}, layer : {None}]
    /\ pen = None /\ phase = "weave" /\ drawn = <<>>
    /\ glyph = None /\ bot = None /\ last = None
    /\ pg = None /\ nf = None
    /\ wc = None /\ ev = None

DoWeave ==
    /\ phase = "weave" /\ ~wv.done
    /\ wv' = [wv EXCEPT !.it = SideWeave(wv.psA, wv.psB, wv.offset, wv.side),
                        !.path = SidePreview(wv.psA, wv.psB, wv.offset, wv.side),
                        !.done = TRUE]
    /\ UNCHANGED <<pen, phase, drawn, glyph, bot, last, pg, nf, wc, ev>>

\* Generate Contours, with self.contours the one stroke of the draw
DoGenerate ==
    /\ phase = "weave" /\ wv.done
    /\ wv' = [wv EXCEPT !.layer = generateCallback(<<wv.it>>)]
    /\ UNCHANGED <<pen, phase, drawn, glyph, bot, last, pg, nf, wc, ev>>

WeaveNext == DoWeave \/ DoGenerate

SpecWeave == WeaveInit /\ [][WeaveNext]_vars

(***************************************************************************)
(* Properties of the weave (SpecWeave).                                    *)
(***************************************************************************)
\* the polyline the loop walks and the polyline the offset lookup reads
Walked == IF wv.side = 1 THEN wv.psB ELSE wv.psA
Other == IF wv.side = 1 THEN wv.psA ELSE wv.psB

Min(a, b) == IF a < b THEN a ELSE b
Max(a, b) == IF a > b THEN a ELSE b

\* number of indexes i of walked with i + offset inside other
NumPairs(walked, other, offset) == Max(0, Min(Len(walked), Len(other) - offset))

\* other[i+offset], walked[i] for the indexes i with i + offset inside other
PairSeq(walked, other, offset) ==
    [j \in 1..(2 * NumPairs(walked, other, offset)) |->
        IF j % 2 = 1 THEN other[(j + 1) \div 2 + offset] ELSE walked[j \div 2]]

\* C3 as stated: with the side flag clear the woven sequence is exactly the
\* concatenation over i of psB[i+offset], psA[i], and contains no other point.
C3_PairsOnly ==
    (phase = "weave" /\ wv.done /\ wv.side = 0)
        => wv.it = PairSeq(wv.psA, wv.psB, wv.offset)

\* C3 amended: with the side flag clear the woven sequence is psA[0] followed
\* by the concatenation over i of psB[i+offset], psA[i].
C3_StartThenPairs ==
    (phase = "weave" /\ wv.done /\ wv.side = 0)
        => wv.it = <<wv.psA[1]>> \o PairSeq(wv.psA, wv.psB, wv.offset)

\* offset=1, psA of 3 points, psB of 4 points: 7 points are woven
C3_Witness ==
    /\ phase = "weave" /\ wv.done /\ wv.side = 0 /\ wv.offset = 1
    /\ Len(wv.psA) = 3 /\ Len(wv.psB) = 4 /\ Len(wv.it) = 7

\* C4 as stated: offset 0 and equal lengths N give exactly 2N points,
\* alternating B,A,B,A,... starting with a point of the looked-up polyline.
C4_TwoN ==
    (phase = "weave" /\ wv.done /\ wv.offset = 0 /\ Len(Walked) = Len(Other))
        => /\ Len(wv.it) = 2 * Len(Walked)
           /\ \A j \in 1..Len(Walked) :
                  wv.it[2 * j - 1] = Other[j] /\ wv.it[2 * j] = Walked[j]

\* C4 amended: offset 0 and equal lengths N give exactly 2N+1 points: the
\* first point of the walked polyline, then B,A,B,A,... alternating.
C4_TwoNPlusOne ==
    (phase = "weave" /\ wv.done /\ wv.offset = 0 /\ Len(Walked) = Len(Other))
        => /\ Len(wv.it) = 2 * Len(Walked) + 1
           /\ wv.it[1] = Walked[1]
           /\ \A j \in 1..Len(Walked) :
                  wv.it[2 * j] = Other[j] /\ wv.it[2 * j + 1] = Walked[j]

C4_Witness ==
    /\ phase = "weave" /\ wv.done /\ wv.offset = 0
    /\ Len(Walked) = 3 /\ Len(Other) = 3 /\ Walked # Other /\ Len(wv.it) = 7

\* C5 as stated: an offset greater than the length of the looked-up
\* polyline gives an empty point sequence.
C5_Empty ==
    (phase = "weave" /\ wv.done /\ wv.offset > Len(Other)) => wv.it = <<>>

\* C5 amended: an offset greater than the length of the looked-up polyline
\* gives the single starting point of the walked polyline; no pair is woven.
C5_StartOnly ==
    (phase = "weave" /\ wv.done /\ wv.offset > Len(Other)) => wv.it = <<Walked[1]>>

C5_Witness ==
    /\ phase = "weave" /\ wv.done /\ wv.offset > Len(Other)
    /\ Len(Walked) = 3 /\ Len(wv.it) = 1

\* C6: with the side flag set the result is exactly the result of weaving
\* with the flag clear and the two polylines exchanged: contour B's points
\* are walked and the offset lookup is made into contour A's points.
C6_SideIsRoleSwap ==
    (phase = "weave" /\ wv.done /\ wv.side = 1)
        => /\ wv.it = SideWeave(wv.psB, wv.psA, wv.offset, 0)
           /\ wv.it = <<wv.psB[1]>> \o PairSeq(wv.psB, wv.psA, wv.offset)

C6_Witness ==
    /\ phase = "weave" /\ wv.done /\ wv.side = 1 /\ wv.offset = 1
    /\ Len(wv.psA) = 3 /\ Len(wv.psB) = 2 /\ wv.psA[1] # wv.psB[1]
    /\ Len(wv.it) = 5

(***************************************************************************)
(* PerlinPen, lines 276-314.  A vertex displaced with intensity 0 is the   *)
(* midpoint itself; otherwise it is the value                              *)
(*   midPt + (cos, sin)(angle + 90) * intensity * pnf(midPt)               *)
(* kept as the tuple of what determines it: the midpoint, the intensity,   *)
(* the noise factory (one per drawContour call) and the point pt.          *)
(***************************************************************************)
calcMidPoint(pt1, pt2) ==
    Norm(pt1[1] * pt2[3] + pt2[1] * pt1[3],
         pt1[2] * pt2[3] + pt2[2] * pt1[3],
         2 * pt1[3] * pt2[3])

PerlinPen(intensity, factory) ==
    [otherPen |-> <<>>, intensity |-> intensity, pnf |-> factory,
     firstPt |-> None, lastPt |-> None]

Perlin_moveTo(self, pt) ==
    [self EXCEPT !.otherPen = Append(@, Call("moveTo", pt, 0)),
                 !.firstPt = pt,
                 !.lastPt = pt]

Perlin_lineTo(self, pt) ==
    LET midPt == calcMidPoint(pt, self.lastPt)
        xy == IF self.intensity = 0
              THEN midPt
              ELSE midPt \o <<self.intensity, self.pnf[1], self.pnf[2]>> \o pt
    IN  [self EXCEPT !.otherPen = Append(@, Call("lineTo", xy, 0)),
                     !.lastPt = pt]

Perlin_closePath(self) ==
    LET s == Perlin_lineTo(self, self.firstPt)
    IN  [s EXCEPT !.otherPen = Append(@, Call("closePath", None, 0)),
                  !.lastPt = None]

Perlin_endPath(self) ==
    [self EXCEPT !.otherPen = Append(@, Call("endPath", None, 0)),
                 !.lastPt = None]

PerlinApply(self, seg) ==
    IF seg.op = "moveTo" THEN Perlin_moveTo(self, seg.pt3)
    ELSE IF seg.op = "lineTo" THEN Perlin_lineTo(self, seg.pt3)
    ELSE IF seg.op = "closePath" THEN Perlin_closePath(self)
    ELSE Perlin_endPath(self)

RECURSIVE PerlinRun(_, _)
PerlinRun(self, segs) ==
    IF segs = <<>> THEN self ELSE PerlinRun(PerlinApply(self, Head(segs)), Tail(segs))

(***************************************************************************)
(* The glyph that receives pen calls (glyph.getPen()) and is drawn into a  *)
(* pen again (glyph.draw): a contour is its points and a closed flag.      *)
(***************************************************************************)
\* glyph.getPen(): on closePath a last point equal to the first is dropped
ContourOfCalls(calls) ==
    LET P == {i \in DOMAIN calls : calls[i].op \in {"moveTo", "lineTo"}}
        all == [i \in 1..Cardinality(P) |-> calls[i].pt]
        closed == calls[Len(calls)].op = "closePath"
    IN  [points |-> IF closed /\ Len(all) > 1 /\ all[1] = all[Len(all)]
                    THEN SubSeq(all, 1, Len(all) - 1)
                    ELSE all,
         closed |-> closed]

\* glyph.draw(pen): moveTo the first point, lineTo the others, then endPath,
\* or closePath with the closing line left implied
CallsOfContour(c) ==
    <<MoveSeg(c.points[1])>>
        \o [i \in 1..(Len(c.points) - 1) |-> LineSeg(c.points[i + 1])]
        \o <<IF c.closed THEN CloseSeg ELSE EndSeg>>

\* perlinGlyph, lines 317-325
perlinGlyph(aGlyph, intensity, factory) ==
    IF aGlyph = <<>> THEN aGlyph
    ELSE [i \in 1..Len(aGlyph) |->
            ContourOfCalls(PerlinRun(PerlinPen(intensity, factory),
                                     CallsOfContour(aGlyph[i])).otherPen)]

(***************************************************************************)
(* StrokeScribblerDrawingBot.drawContour, lines 913-929.                   *)
(* The result carries the flattener (distancePen) as it was left.          *)
(***************************************************************************)
\* lines 918-929: what drawContour does once contour.draw(distancePen) is over
drawContourNoise(distancePen, random, factory) ==
    LET glyph0 == IF distancePen.otherPen = <<>>
                  THEN <<>>
                  ELSE <<ContourOfCalls(distancePen.otherPen)>>
        noisy == perlinGlyph(glyph0, random * 10, factory)
    IN  IF distancePen.error # "none"
        THEN [ps |-> <<>>, ref |-> EmptyMap, pen |-> distancePen,
              error |-> distancePen.error]
        ELSE IF noisy = <<>>
        THEN [ps |-> <<>>, ref |-> EmptyMap, pen |-> distancePen,
              error |-> "IndexError"]
        ELSE [ps |-> noisy[1].points, ref |-> distancePen.segmentRefrenceMap,
              pen |-> distancePen, error |-> "none"]

drawContour(contour, seg_length, random, factory) ==
    drawContourNoise(Run(StrokeFlattener(seg_length), contour), random, factory)

(***************************************************************************)
(* The glyph: contours by identifier and lib[KEY], an ordered dict of      *)
(* (key, item) with key the two identifiers and item the five parameters.  *)
(***************************************************************************)
\* IDtoRContours, lines 404-411
IDtoRContours(g, ID) ==
    LET hit == [i \in 1..Len(ID) |-> IF ID[i] \in DOMAIN g.contours THEN <<ID[i]>> ELSE <<>>]
    IN  hit[1] \o hit[2]

\* getContourPairs, lines 414-430: (identifiers of the two contours, item)
RECURSIVE getContourPairs(_, _)
getContourPairs(g, n) ==
    IF n = 0 THEN <<>>
    ELSE LET e == g.lib[n]
             conts == IDtoRContours(g, e.key)
         IN  IF Len(e.item) = 5 /\ Len(conts) = 2
             THEN Append(getContourPairs(g, n - 1), [conts |-> conts, cinfo |-> e.item])
             ELSE getContourPairs(g, n - 1)

(***************************************************************************)
(* StrokeScribblerDrawingBot.draw, lines 965-1034.                         *)
(***************************************************************************)
\* line 993 and line 1001: the seg_length of the two drawContour calls
FirstLength(segs) == IntLen(segs)
SecondLengthCopied(segs, ref) == IntLen(segs)
SecondLength(segs, ref) == DictLen(ref)

CallLog(n, side, c, r) == [group |-> n, side |-> side, contour |-> c, pen |-> r.pen]

\* the loop over cps from group n on; acc is self.contours, calls the log of
\* the drawContour calls; an exception ends the loop and the handler
RECURSIVE DrawGroups(_, _, _, _, _)

\* lines 1005-1032: both contours of group n are flattened
DrawWeave(g, cps, n, acc, calls, one, two) ==
    LET c == cps[n]
        calls2 == Append(calls, CallLog(n, "two", c.conts[2], two))
    IN  IF two.error # "none"
        THEN [contours |-> acc, calls |-> calls2, error |-> two.error]
        ELSE DrawGroups(g, cps, n + 1,
                        Append(acc, SideWeave(one.ps, two.ps, c.cinfo[4], c.cinfo[3])),
                        calls2)

\* lines 997-1004: cont1 is flattened, cont2 is flattened next
DrawSecond(g, cps, n, acc, calls, one) ==
    LET c == cps[n]
        calls1 == Append(calls, CallLog(n, "one", c.conts[1], one))
    IN  IF one.error # "none"
        THEN [contours |-> acc, calls |-> calls1, error |-> one.error]
        ELSE DrawWeave(g, cps, n, acc, calls1, one,
                       drawContour(g.contours[c.conts[2]],
                                   SecondLength(c.cinfo[2], one.ref),
                                   c.cinfo[5], <<n, 2>>))

DrawGroups(g, cps, n, acc, calls) ==
    IF n > Len(cps) THEN [contours |-> acc, calls |-> calls, error |-> "none"]
    ELSE DrawSecond(g, cps, n, acc, calls,
                    drawContour(g.contours[cps[n].conts[1]],
                                FirstLength(cps[n].cinfo[2]),
                                cps[n].cinfo[5], <<n, 1>>))

Event(key, val) == [key |-> key, val |-> val]

\* draw(): the new self.contours, the drawContour calls, the exception that
\* ended it ("none" when it returned) and the events it posted
\* line 1034: the event is posted when nothing was raised before
drawPost(r) ==
    [contours |-> r.contours, calls |-> r.calls, error |-> r.error,
     posted |-> IF r.error = "none" THEN <<Event("contours", r.contours)>> ELSE <<>>]

draw(self, g) ==
    drawPost(IF self.preview # 0
             THEN IF DOMAIN g.contours # {}
                  THEN DrawGroups(g, getContourPairs(g, Len(g.lib)), 1, <<>>, <<>>)
                  ELSE [contours |-> <<>>, calls |-> <<>>, error |-> "none"]
             ELSE [contours |-> self.contours, calls |-> <<>>, error |-> "none"])

(***************************************************************************)
(* StrokeScribblerDrawingBot.settingsChanged, lines 1039-1054.  An absent  *)
(* value (None) of info is <<>>, a present value v is <<v>>.               *)
(***************************************************************************)
Info(th, di, si, of, ra, pr, co) ==
    [thickness_value |-> th, distance_value |-> di, side_value |-> si,
     offset_value |-> of, random_value |-> ra, show_preview |-> pr,
     color_value |-> co]

settingsChangedFields(self, info) ==
    [self EXCEPT
        !.thickness = IF info.thickness_value # <<>> THEN info.thickness_value[1] ELSE @,
        !.distance = IF info.distance_value # <<>> THEN info.distance_value[1] ELSE @,
        !.side = IF info.side_value # <<>> THEN info.side_value[1] ELSE @,
        !.offset = IF info.offset_value # <<>> THEN info.offset_value[1] ELSE @,
        !.random = IF info.random_value # <<>> THEN info.random_value[1] ELSE @,
        !.preview = IF info.show_preview # <<>> THEN info.show_preview[1] ELSE @,
        !.color = IF info.color_value # <<>> THEN info.color_value[1] ELSE @]

(***************************************************************************)
(* SpecDraw: a glyph with two contour groups is edited and redrawn.        *)
(***************************************************************************)
ContourIds == {1, 2, 3}

\* the contours an edit can give a contour identifier
K_long == <<MoveSeg(Pt(0, 0)), LineSeg(Pt(4, 3)), EndSeg>>
K_short == <<MoveSeg(Pt(0, 0)), LineSeg(Pt(1, 0)), EndSeg>>
K_curve == <<MoveSeg(Pt(1, 0)), CurveSeg(Ctl, Ctl, Pt(4, 3), 6), EndSeg>>
K_closed == <<MoveSeg(Pt(0, 0)), LineSeg(Pt(4, 3)), LineSeg(Pt(1, 0)), CloseSeg>>
\* a contour with a single point and a contour without points
K_point == <<MoveSeg(Pt(0, 0)), EndSeg>>
K_empty == <<>>
Pool == {K_long, K_short, K_curve, K_closed, K_point, K_empty}

\* (thickness, distance, side, offset, random) of a group
Items == {<<4, 1, 0, 0, 0>>, <<4, 4, 1, 1, 1>>}

\* the settings events delivered in SpecDraw
Infos ==
    {Info(<<2>>, <<>>, <<>>, <<>>, <<>>, <<>>, <<>>),
     Info(<<>>, <<>>, <<>>, <<>>, <<>>, <<1>>, <<>>)}

\* StrokeScribblerDrawingBot.build, lines 898-905
BotBuild ==
    [thickness |-> 1, distance |-> 40, side |-> 1, offset |-> 1, random |-> 0,
     preview |-> 1, contours |-> <<>>, color |-> "blue"]

Ran(handler, d, before) ==
    [handler |-> handler, calls |-> d.calls, error |-> d.error,
     posted |-> before \o d.posted]

DrawInit ==
    /\ glyph \in {[contours |-> cs,
                   lib |-> <<[key |-> <<1, 2>>, item |-> a],
                             [key |-> <<2, 3>>, item |-> b]>>] :
                     cs \in [ContourIds -> Pool], a \in Items, b \in Items}
    /\ bot = BotBuild
    /\ last = [handler |-> "build", calls |-> <<>>, error |-> "none", posted |-> <<>>]
    /\ phase = "draw"
    /\ pen = None /\ drawn = <<>> /\ wv = None
    /\ pg = None /\ nf = None
    /\ wc = None /\ ev = None

\* glyphEditorGlyphDidChange, lines 951-955, after an edit of one contour
glyphEditorGlyphDidChange ==
    /\ phase = "draw"
    /\ \E id \in ContourIds, c \in Pool :
         /\ glyph' = [glyph EXCEPT !.contours[id] = c]
         /\ \E d \in {draw(bot, glyph')} :
                /\ bot' = [bot EXCEPT !.contours = d.contours]
                /\ last' = Ran("glyphEditorGlyphDidChange", d,
                               <<Event("reset_glyph", <<>>)>>)
    /\ UNCHANGED <<pen, phase, drawn, wv, pg, nf, wc, ev>>

\* settingsChanged, lines 1039-1054
settingsChanged ==
    /\ phase = "draw"
    /\ \E info \in Infos :
         \E self \in {settingsChangedFields(bot, info)} :
             \E d \in {draw(self, glyph)} :
                 /\ bot' = [self EXCEPT !.contours = d.contours]
                 /\ last' = Ran("settingsChanged", d, <<>>)
    /\ UNCHANGED <<pen, phase, drawn, wv, glyph, pg, nf, wc, ev>>

DrawNext == glyphEditorGlyphDidChange \/ settingsChanged

SpecDraw == DrawInit /\ [][DrawNext]_vars

(***************************************************************************)
(* Properties of the draw pipeline (SpecDraw).                             *)
(***************************************************************************)
InDraw == phase = "draw"

\* the groups draw() iterates over
Cps == getContourPairs(glyph, Len(glyph.lib))

Closed(contour) == contour # <<>> /\ contour[Len(contour)].op = "closePath"

\* C1 as stated: whenever the two contours of a group have the same number
\* of line/curve segments, flattening A in Distance mode and then B in
\* Reference mode with A's step map completes without a lookup failure and
\* gives B, for every segment index, as many sampled points as A.
C1_PairedCountsEqual ==
    InDraw =>
        \A i \in DOMAIN last.calls :
            LET b == last.calls[i]
                a == last.calls[i - 1]
            IN  (/\ b.side = "two"
                 /\ NumSegs(glyph.contours[a.contour]) = NumSegs(glyph.contours[b.contour])
                 /\ Closed(glyph.contours[a.contour]) = Closed(glyph.contours[b.contour]))
                    => /\ b.pen.error = "none"
                       /\ \A k \in 1..a.pen.index :
                              Cardinality(Sampled(b.pen, k)) = Cardinality(Sampled(a.pen, k))
                       /\ NumSampled(b.pen) = NumSampled(a.pen)

\* C7: in every draw of a contour group, contour A is flattened completely
\* in Distance mode with the group's distance setting before contour B is
\* flattened, and B is flattened in Reference mode with exactly the step map
\* that this flattening of A produced from the glyph as it is now.
C7_BUsesMapOfA ==
    InDraw =>
        \A i \in DOMAIN last.calls :
            LET x == last.calls[i]
                c == Cps[x.group]
                flatA == Run(StrokeFlattener(IntLen(c.cinfo[2])), glyph.contours[c.conts[1]])
            IN  /\ x.side = "one" =>
                    /\ x.contour = c.conts[1]
                    /\ ~x.pen.reference
                    /\ x.pen = flatA
                    /\ i = 1 \/ (last.calls[i - 1].side = "two"
                                  /\ last.calls[i - 1].group = x.group - 1)
                /\ x.side = "two" =>
                    /\ i > 1
                    /\ last.calls[i - 1].side = "one"
                    /\ last.calls[i - 1].group = x.group
                    /\ last.calls[i - 1].pen.error = "none"
                    /\ x.contour = c.conts[2]
                    /\ x.pen.reference
                    /\ x.pen.approximateSegmentLength = DictLen(flatA.segmentRefrenceMap)
                    /\ x.pen.approximateSegmentLength
                           = DictLen(last.calls[i - 1].pen.segmentRefrenceMap)

\* two groups drawn in one draw(), the two A contours giving different maps
C7_Witness ==
    /\ InDraw /\ Len(last.calls) = 4 /\ last.error = "none"
    /\ last.calls[1].pen.segmentRefrenceMap # EmptyMap
    /\ last.calls[3].pen.segmentRefrenceMap # EmptyMap
    /\ last.calls[1].pen.segmentRefrenceMap # last.calls[3].pen.segmentRefrenceMap
    /\ last.calls[4].pen.approximateSegmentLength.val = last.calls[3].pen.segmentRefrenceMap

\* C10 as stated: when the Reference-mode step lookup fails for one group
\* during draw(), draw() does not abort: every group of the glyph has been
\* visited, the groups without a failure are woven and the contours event
\* is posted.
C10_FailedGroupIsSkipped ==
    (InDraw /\ \E i \in DOMAIN last.calls : last.calls[i].pen.error = "KeyError")
        => /\ last.error = "none"
           /\ \A n \in DOMAIN Cps : \E i \in DOMAIN last.calls : last.calls[i].group = n
           /\ Len(bot.contours) =
                  Cardinality({n \in DOMAIN Cps :
                      \A i \in DOMAIN last.calls :
                          last.calls[i].group = n => last.calls[i].pen.error = "none"})
           /\ \E j \in DOMAIN last.posted : last.posted[j].key = "contours"

(***************************************************************************)
(* SpecPerlin: perlinGlyph applied to a glyph as drawContour builds it     *)
(* (line 919): no contour or one contour written through glyph.getPen()    *)
(* by the flattener, so no two neighbouring points are equal and the last  *)
(* point of a closed contour differs from its first.                       *)
(***************************************************************************)
MaxPoints == 3
PerlinPts == {Pt(0, 0), Pt(4, 0), Pt(4, 2)}

\* random * 10 for values of the Random slider
Intensities == {0, 10, 20}

PointLists == UNION {[1..n -> PerlinPts] : n \in 1..MaxPoints}

FlatContours ==
    {[points |-> ps, closed |-> b] : ps \in PointLists, b \in BOOLEAN}

IsFlat(c) ==
    /\ \A i \in 1..(Len(c.points) - 1) : c.points[i] # c.points[i + 1]
    /\ (c.closed /\ Len(c.points) > 1) => c.points[1] # c.points[Len(c.points)]

PerlinInit ==
    /\ pg \in {[input |-> g, intensity |-> i, output |-> None, done |-> FALSE] :
                 g \in {<<>>} \cup {<<c>> : c \in {x \in FlatContours : IsFlat(x)}},
                 i \in Intensities}
    /\ phase = "perlin"
    /\ pen = None /\ drawn = <<>> /\ wv = None
    /\ glyph = None /\ bot = None /\ last = None /\ nf = None
    /\ wc = None /\ ev = None

\* line 919: perlinGlyph(glyph, random * 10, pnf)
DoPerlinGlyph ==
    /\ phase = "perlin" /\ ~pg.done
    /\ pg' = [pg EXCEPT !.output = perlinGlyph(pg.input, pg.intensity, <<1, 1>>),
                        !.done = TRUE]
    /\ UNCHANGED <<pen, phase, drawn, wv, glyph, bot, last, nf, wc, ev>>

PerlinNext == DoPerlinGlyph

SpecPerlin == PerlinInit /\ [][PerlinNext]_vars

(***************************************************************************)
(* Properties of the noise displacer (SpecPerlin).                         *)
(***************************************************************************)
PerlinDone == phase = "perlin" /\ pg.done

\* C11 as stated: the displacer moves each vertex away from its own
\* position, so with intensity 0 every vertex of the output polyline equals
\* the corresponding vertex of the input.
C11_ZeroIntensityIsIdentity ==
    (PerlinDone /\ pg.intensity = 0) =>
        \A n \in DOMAIN pg.input :
            \A i \in DOMAIN pg.input[n].points :
                /\ i \in DOMAIN pg.output[n].points
                /\ pg.output[n].points[i] = pg.input[n].points[i]

\* C12 as stated: for every input path, open or closed, the displacer emits
\* as many vertices as it receives and passes the first vertex through.
C12_SameCountFirstKept ==
    PerlinDone =>
        \A n \in DOMAIN pg.input :
            /\ Len(pg.output[n].points) = Len(pg.input[n].points)
            /\ pg.output[n].points[1] = pg.input[n].points[1]

(***************************************************************************)
(* SpecFlat: a whole contour is drawn into a new Distance-mode flattener   *)
(* (lines 916-917: contour.draw(distancePen)).                             *)
(***************************************************************************)
MaxFlat == 3
FlatPts == {Pt(0, 0), Pt(10, 0), Pt(100, 0), Pt(245, 0)}

\* values of the Distance slider (5..50)
FlatDists == {5, 25}

\* the closed square with side length 100
Square ==
    <<MoveSeg(Pt(0, 0)), LineSeg(Pt(100, 0)), LineSeg(Pt(100, 100)),
      LineSeg(Pt(0, 100)), CloseSeg>>

\* the contour with the points ps, closed or open
PolySegs(ps, end) ==
    <<MoveSeg(ps[1])>> \o [i \in 1..(Len(ps) - 1) |-> LineSeg(ps[i + 1])] \o <<end>>

FlatInputs ==
    {PolySegs(ps, e) : ps \in UNION {[1..n -> FlatPts] : n \in 1..MaxFlat},
                       e \in {CloseSeg, EndSeg}}
    \cup {Square,
          <<MoveSeg(Pt(0, 0)), CurveSeg(Pt(10, 0), Pt(100, 0), Pt(100, 0), 120), CloseSeg>>,
          <<MoveSeg(Pt(0, 0)), LineSeg(Pt(100, 0)),
            CurveSeg(Pt(100, 100), Pt(0, 100), Pt(0, 0), 200), CloseSeg>>}

FlatInit ==
    /\ drawn \in FlatInputs
    /\ pen \in {StrokeFlattener(IntLen(d)) : d \in FlatDists}
    /\ phase = "contour"
    /\ wv = None /\ glyph = None /\ bot = None /\ last = None
    /\ pg = None /\ nf = None
    /\ wc = None /\ ev = None

\* line 917: contour.draw(distancePen)
DoFlatten ==
    /\ phase = "contour"
    /\ pen' = Run(pen, drawn)
    /\ phase' = "flattened"
    /\ UNCHANGED <<drawn, wv, glyph, bot, last, pg, nf, wc, ev>>

FlatNext == DoFlatten

SpecFlat == FlatInit /\ [][FlatNext]_vars

(***************************************************************************)
(* Properties of the flattening of a whole contour (SpecFlat).             *)
(***************************************************************************)
Flattened == phase = "flattened"

\* the points emitted to the output pen, in order
Emitted(self) ==
    LET P == {i \in DOMAIN self.otherPen : self.otherPen[i].op \in {"moveTo", "lineTo"}}
    IN  [i \in 1..Cardinality(P) |-> self.otherPen[i].pt]

\* C13 as stated: for every closed contour flattened in Distance mode the
\* last point emitted to the output equals the first (MoveTo) point.
C13_ClosedEndsAtFirst ==
    (Flattened /\ Closed(drawn)) =>
        Emitted(pen)[Len(Emitted(pen))] = drawn[1].pt3

\* C14: the closed square with side length 100, flattened in Distance mode
\* with approximateSegmentLength 25, gets the step map {1:4, 2:4, 3:4, 4:4}
\* and 16 sampled points, the quarter positions of the sides in order, the
\* 16th being the starting corner.
C14_Square ==
    (Flattened /\ drawn = Square /\ pen.approximateSegmentLength = IntLen(25)) =>
        /\ pen.error = "none"
        /\ pen.segmentRefrenceMap = [k \in 1..4 |-> 4]
        /\ NumSampled(pen) = 16
        /\ Emitted(pen) =
               <<Pt(0, 0)>>
               \o [i \in 1..4 |-> Pt(25 * i, 0)]
               \o [i \in 1..4 |-> Pt(100, 25 * i)]
               \o [i \in 1..4 |-> Pt(100 - 25 * i, 100)]
               \o [i \in 1..4 |-> Pt(0, 100 - 25 * i)]
        /\ Emitted(pen)[17] = Square[1].pt3

C14_Witness ==
    /\ Flattened /\ drawn = Square /\ pen.approximateSegmentLength = IntLen(25)
    /\ pen.index = 4 /\ Len(pen.otherPen) = 18

(***************************************************************************)
(* Degenerate contours in the draw pipeline (SpecDraw).                    *)
(***************************************************************************)
\* C15 as stated: a grouped contour without a line or curve segment (no
\* point or a single point) is flattened without failure into no sampled
\* point and an empty step map, and draw() does not raise in its group.
C15_DegenerateGroupsDraw ==
    InDraw =>
        /\ \A i \in DOMAIN last.calls :
               NumSegs(glyph.contours[last.calls[i].contour]) = 0 =>
                   /\ last.calls[i].pen.error = "none"
                   /\ last.calls[i].pen.segmentRefrenceMap = EmptyMap
                   /\ NumSampled(last.calls[i].pen) = 0
        /\ \A n \in DOMAIN Cps :
               (\E j \in 1..2 : NumSegs(glyph.contours[Cps[n].conts[j]]) = 0)
                   => ~(/\ last.error # "none"
                        /\ last.calls[Len(last.calls)].group = n)

(***************************************************************************)
(* Preview path and generated contour (SpecWeave).                         *)
(***************************************************************************)
\* the points of a list of pen calls, in order
PointsOf(calls) ==
    LET P == {i \in DOMAIN calls : calls[i].op \in {"moveTo", "lineTo"}}
    IN  [i \in 1..Cardinality(P) |-> calls[i].pt]

PerlinNoiseFactory(dimension, octaves, tile) ==
    [dimension |-> dimension,
     octaves |-> octaves,
     tile |-> tile \o [i \in 1..dimension |-> 0],
     gradient |-> EmptyMap,
     made |-> 0]

\* itertools.product of the (min_coord, max_coord) pairs, line 354
RECURSIVE Product(_)
Product(grid_coords) ==
    IF grid_coords = <<>> THEN << <<>> >>
    ELSE LET rest == Product(Tail(grid_coords))
             n == Len(rest)
         IN  [k \in 1..(2 * n) |->
                 <<Head(grid_coords)[((k - 1) \div n) + 1]>> \o rest[((k - 1) % n) + 1]]

\* lines 354-357: a gradient is generated for a lattice point not yet cached
RECURSIVE FillGradients(_, _)
FillGradientsAlways(self, grid_points) ==
    IF grid_points = <<>> THEN self
    ELSE [self EXCEPT
             !.gradient = [g \in (DOMAIN @) \cup {grid_points[i] : i \in DOMAIN grid_points}
                              |-> IF \E i \in DOMAIN grid_points : grid_points[i] = g
                                  THEN self.made + (CHOOSE i \in DOMAIN grid_points :
                                                        grid_points[i] = g)
                                  ELSE @[g]],
             !.made = @ + Len(grid_points)]
FillGradients(self, grid_points) ==
    IF grid_points = <<>> THEN self
    ELSE FillGradients(
             IF Head(grid_points) \in DOMAIN self.gradient
             THEN self
             ELSE [self EXCEPT !.gradient = MapPut(@, Head(grid_points), self.made + 1),
                               !.made = @ + 1],
             Tail(grid_points))

\* lines 358-370: the value computed from the point and the cached gradients
PlainValue(self, point, grid_points) ==
    <<point, [k \in DOMAIN grid_points |-> self.gradient[grid_points[k]]]>>

NoiseResult(self, error, value) == [self |-> self, error |-> error, value |-> value]

\* lines 348-353: the lattice corners around the point
GridPoints(point) ==
    Product([i \in DOMAIN point |-> <<point[i] \div 6, (point[i] \div 6) + 1>>])

PlainNoiseAt(filled, point, grid_points) ==
    NoiseResult(filled, "none", PlainValue(filled, point, grid_points))

\* get_plain_noise, lines 344-370
get_plain_noise(self, point) ==
    IF Len(point) # self.dimension
    THEN NoiseResult(self, "ValueError", None)
    ELSE PlainNoiseAt(FillGradients(self, GridPoints(point)), point, GridPoints(point))

\* lines 376-381: new_point of octave o, after self.tile[i] was read for
\* every coordinate
NewPoint(self, point, o) ==
    [i \in DOMAIN point |->
        IF self.tile[i] # 0
        THEN (point[i] * (2 ^ o)) % (self.tile[i] * (2 ^ o))
        ELSE point[i] * (2 ^ o)]

\* __call__, lines 372-389, from octave o on; ret is the list of the
\* get_plain_noise values added so far
RECURSIVE CallOctaves(_, _, _, _)
CallOctave(r, point, o, ret) ==
    IF r.error # "none" THEN r
    ELSE CallOctaves(r.self, point, o + 1, Append(ret, r.value))

CallOctaves(self, point, o, ret) ==
    IF o >= self.octaves THEN NoiseResult(self, "none", ret)
    ELSE IF Len(point) > Len(self.tile) THEN NoiseResult(self, "IndexError", None)
    ELSE CallOctave(get_plain_noise(self, NewPoint(self, point, o)), point, o, ret)

__call__(self, point) == CallOctaves(self, point, 0, <<>>)

(***************************************************************************)
(* SpecNoise: the noise field of one drawContour call (line 918) sampled   *)
(* several times.                                                          *)
(***************************************************************************)
MaxCalls == 3

\* coordinate tuples: (0.5, 0.5), (1.5, 0.5), (2, 2) and tuples of other arity
NoiseArgs ==
    {<<3, 3>>, <<9, 3>>, <<12, 12>>,
     <<>>, <<3>>, <<3, 3, 3>>, <<3, 3, 3, 3, 3>>}

NoiseInit ==
    /\ nf = [pnf |-> PerlinNoiseFactory(2, 4, <<10, 10>>), hist |-> <<>>]
    /\ phase = "noise"
    /\ pen = None /\ drawn = <<>> /\ wv = None
    /\ glyph = None /\ bot = None /\ last = None /\ pg = None
    /\ wc = None /\ ev = None

HistEntry(fn, point, before, r) ==
    [fn |-> fn, point |-> point, error |-> r.error, value |-> r.value,
     before |-> before.gradient, after |-> r.self.gradient]

NoiseStep(fn, point, r) ==
    /\ nf' = [pnf |-> r.self, hist |-> Append(nf.hist, HistEntry(fn, point, nf.pnf, r))]
    /\ UNCHANGED <<pen, phase, drawn, wv, glyph, bot, last, pg, wc, ev>>

\* noise = self.pnf(...), line 297
CallNoise ==
    /\ phase = "noise" /\ Len(nf.hist) < MaxCalls
    /\ \E point \in NoiseArgs : NoiseStep("__call__", point, __call__(nf.pnf, point))

\* a direct get_plain_noise call
CallPlainNoise ==
    /\ phase = "noise" /\ Len(nf.hist) < MaxCalls
    /\ \E point \in NoiseArgs :
           NoiseStep("get_plain_noise", point, get_plain_noise(nf.pnf, point))

NoiseNext == CallNoise \/ CallPlainNoise

SpecNoise == NoiseInit /\ [][NoiseNext]_vars

(***************************************************************************)
(* Properties of the noise field (SpecNoise).                              *)
(***************************************************************************)
InNoise == phase = "noise"

\* C17: a gradient in the cache is never replaced or removed by a call, and
\* two sample calls with the same coordinates on the instance return the
\* same value, whatever calls happen in between.
C17_SamplingDeterministic ==
    InNoise =>
        /\ \A i \in DOMAIN nf.hist :
               \A g \in DOMAIN nf.hist[i].before :
                   /\ g \in DOMAIN nf.hist[i].after
                   /\ nf.hist[i].after[g] = nf.hist[i].before[g]
        /\ \A i \in DOMAIN nf.hist :
               nf.hist[i].after = IF i = Len(nf.hist) THEN nf.pnf.gradient
                                  ELSE nf.hist[i + 1].before
        /\ \A i, j \in DOMAIN nf.hist :
               (/\ nf.hist[i].fn = nf.hist[j].fn
                /\ nf.hist[i].point = nf.hist[j].point)
                   => /\ nf.hist[i].error = nf.hist[j].error
                      /\ nf.hist[i].value = nf.hist[j].value

\* the same point sampled twice with a call that fills the cache in between
C17_Witness ==
    /\ InNoise /\ Len(nf.hist) = 3
    /\ nf.hist[1].fn = "__call__" /\ nf.hist[3].fn = "__call__"
    /\ nf.hist[1].point = nf.hist[3].point
    /\ nf.hist[1].error = "none"
    /\ nf.hist[2].error = "none"
    /\ nf.hist[2].after # nf.hist[2].before

\* C18 as stated: a sample call with a coordinate tuple whose arity differs
\* from the dimension raises ValueError and leaves the gradient cache as it
\* was before the call.
C18_ArityRaisesValueError ==
    InNoise =>
        \A i \in DOMAIN nf.hist :
            Len(nf.hist[i].point) # nf.pnf.dimension =>
                /\ nf.hist[i].error = "ValueError"
                /\ nf.hist[i].after = nf.hist[i].before

(***************************************************************************)
(* Repeated points and degenerate curves in the flattener (SpecPen).       *)
(***************************************************************************)
\* the calls of the contour drawn so far that reached _lineTo or
\* _curveToOne without an earlier exception
LiveCalls(op) ==
    {j \in 1..Len(drawn) : drawn[j].op = op /\ PenAfter(j - 1).error = "none"}

\* a curveTo whose first control point is the current point and whose
\* second control point is the endpoint
Degenerate(j) ==
    /\ drawn[j].pt1 = PenAfter(j - 1).currentPt
    /\ drawn[j].pt2 = drawn[j].pt3

\* C19: with filterDoubles on, a lineTo whose target equals the current
\* point is dropped in both policies: it emits nothing to the output pen and
\* leaves the segment index, the step map and the current point unchanged.
C19_RepeatedPointDropped ==
    InPen =>
        \A j \in LiveCalls("lineTo") :
            (/\ PenAfter(j - 1).filterDoubles
             /\ drawn[j].pt3 = PenAfter(j - 1).currentPt)
                => /\ PenAfter(j).otherPen = PenAfter(j - 1).otherPen
                   /\ PenAfter(j).index = PenAfter(j - 1).index
                   /\ PenAfter(j).segmentRefrenceMap = PenAfter(j - 1).segmentRefrenceMap
                   /\ PenAfter(j).currentPt = PenAfter(j - 1).currentPt
                   /\ PenAfter(j).error = "none"

\* a lineTo to the endpoint of the segment flattened before it
C19_Witness ==
    /\ InPen /\ Len(drawn) = 3
    /\ drawn[2].op = "lineTo" /\ drawn[3].op = "lineTo"
    /\ drawn[3].pt3 = drawn[2].pt3
    /\ drawn[2].pt3 # drawn[1].pt3
    /\ pen.index = 1 /\ pen.error = "none"
    /\ NumSampled(pen) >= 1

\* C20: a degenerate curveTo leaves the pen as lineTo(endpoint) leaves it in
\* both policies (same emitted points, same step map, same outcome), and the
\* segment index advances by one, or by zero when the endpoint equals the
\* current point, never by two.
C20_DegenerateCurveIsLine ==
    InPen =>
        \A j \in LiveCalls("curveTo") :
            Degenerate(j) =>
                /\ PenAfter(j) = _lineTo(PenAfter(j - 1), drawn[j].pt3)
                /\ PenAfter(j).index - PenAfter(j - 1).index =
                       IF drawn[j].pt3 = PenAfter(j - 1).currentPt THEN 0 ELSE 1
                /\ (drawn[j].pt3 = PenAfter(j - 1).currentPt)
                       => PenAfter(j) = PenAfter(j - 1)
                /\ (PenAfter(j).error = "none" /\ ~pen.reference)
                       => \A i \in Sampled(PenAfter(j), PenAfter(j).index) :
                              i > Len(PenAfter(j - 1).otherPen) =>
                                  \E f \in 1..Len(PenAfter(j).otherPen) :
                                      PenAfter(j).otherPen[i].pt =
                                          interpolatePoint(PenAfter(j - 1).currentPt,
                                                           drawn[j].pt3, f,
                                                           Cardinality(Sampled(PenAfter(j),
                                                                               PenAfter(j).index)))

\* a degenerate curveTo to a new point after a segment, flattened into
\* several points of the straight line
C20_Witness ==
    /\ InPen /\ Len(drawn) = 3
    /\ drawn[3].op = "curveTo" /\ Degenerate(3)
    /\ PenAfter(2).error = "none" /\ PenAfter(2).index = 1
    /\ drawn[3].pt3 # PenAfter(2).currentPt
    /\ pen.error = "none" /\ pen.index = 2
    /\ Cardinality(Sampled(pen, 2)) >= 2

(***************************************************************************)
(* The step maps of the two policies (SpecPen).                            *)
(***************************************************************************)
\* C21: a Reference-mode flattener never writes step counts: its own
\* segmentRefrenceMap stays empty, and no moveTo, lineTo, curveTo, closePath
\* or endPath changes the step map it was given.
C21_ReferenceWritesNoMap ==
    /\ [](InPen /\ pen.reference => pen.segmentRefrenceMap = EmptyMap)
    /\ [][(InPen /\ pen.reference)
             => /\ pen'.approximateSegmentLength = pen.approximateSegmentLength
                /\ pen'.reference]_vars

\* a line and a curve replayed from a step map and the contour closed
C21_Witness ==
    /\ InPen /\ pen.reference /\ phase = "done" /\ pen.error = "none"
    /\ Len(drawn) = 4 /\ drawn[2].op = "lineTo" /\ drawn[3].op = "curveTo"
    /\ drawn[4].op = "closePath"
    /\ ~Degenerate(3)
    /\ pen.index = 2 /\ NumSampled(pen) >= 3

\* the Reference-mode replay of the contour drawn so far with the map the
\* Distance-mode flattener produced
Replay == Run(StrokeFlattener(DictLen(pen.segmentRefrenceMap)), drawn)

\* C29: every step count a Distance-mode flattening records is an integer
\* >= 1 and is the number of points emitted for that segment, so the
\* Reference-mode replay of the produced map never divides by zero and
\* emits, for every listed segment it reaches, the recorded number (>= 1) of
\* points.
C29_RecordedStepsPositive ==
    (InPen /\ ~pen.reference) =>
        /\ \A k \in DOMAIN pen.segmentRefrenceMap :
               /\ pen.segmentRefrenceMap[k] \in Nat
               /\ pen.segmentRefrenceMap[k] >= 1
               /\ pen.segmentRefrenceMap[k] = Cardinality(Sampled(pen, k))
        /\ Replay.error # "ZeroDivisionError"
        /\ \A k \in DOMAIN pen.segmentRefrenceMap :
               (k <= Replay.index /\ (k < Replay.index \/ Replay.error = "none"))
                   => /\ Cardinality(Sampled(Replay, k)) = pen.segmentRefrenceMap[k]
                      /\ Cardinality(Sampled(Replay, k)) >= 1

\* a segment flattened into two points after a clamped segment, both replayed
C29_Witness ==
    /\ InPen /\ ~pen.reference /\ pen.error = "none"
    /\ pen.index = 2
    /\ DOMAIN pen.segmentRefrenceMap = {2}
    /\ pen.segmentRefrenceMap[2] = 2
    /\ Cardinality(Sampled(pen, 1)) = 1
    /\ Replay.error = "KeyError"

(***************************************************************************)
(* The indexes of the weave loop (SpecWeave).                              *)
(***************************************************************************)
\* iteration i of the loop appends a point pair
EmitsPair(ps1, ps2, offset, i) == WeaveStep(<<>>, ps1, ps2, offset, i) # <<>>

EmittedIndexes(ps1, ps2, offset) ==
    {i \in 0..(Len(ps1) - 1) : EmitsPair(ps1, ps2, offset, i)}

\* C23: the indexes i of the walked polyline for which the loop emits a
\* pair are exactly 0..k-1 with k = max(0, min(len(ps1), len(ps2) - offset)):
\* after the first skipped index every index is skipped, and the woven
\* sequence holds the k pairs without a gap.
C23_EmittedIndexesInitial ==
    (phase = "weave" /\ wv.done) =>
        LET k == NumPairs(Walked, Other, wv.offset)
        IN  /\ EmittedIndexes(Walked, Other, wv.offset) = 0..(k - 1)
            /\ \A i \in 0..(Len(Walked) - 1) :
                   ~EmitsPair(Walked, Other, wv.offset, i)
                       => \A j \in i..(Len(Walked) - 1) :
                              ~EmitsPair(Walked, Other, wv.offset, j)
            /\ Len(wv.it) = 1 + 2 * k
            /\ \A i \in 0..(k - 1) :
                   /\ wv.it[2 * i + 2] = Other[i + wv.offset + 1]
                   /\ wv.it[2 * i + 3] = Walked[i + 1]

\* two indexes emit a pair and the two after them are skipped
C23_Witness ==
    /\ phase = "weave" /\ wv.done /\ wv.offset = 1
    /\ Len(Walked) = 4 /\ Len(Other) = 3
    /\ EmittedIndexes(Walked, Other, wv.offset) = {0, 1}
    /\ Len(wv.it) = 5

(***************************************************************************)
(* StrokeScribblerWindowController: the groups stored in glyph.lib[KEY]    *)
(* and the group table.  The glyph is [contours, lib, selected]: selected  *)
(* is glyph.selectedContours, a tuple of contour identifiers.  The table   *)
(* widget is its items (wc.settings) and its selected rows (wc.tableSel,   *)
(* 0-based); it calls groupTableSelectionCallback when its selected rows   *)
(* change.                                                                 *)
(***************************************************************************)
\* sorted([b.getIdentifier() for b in c]) for two contours, lines 433-438, 820
PairKeyInOrder(c) == <<c[1], c[2]>>
PairKey(c) == IF c[1] <= c[2] THEN <<c[1], c[2]>> ELSE <<c[2], c[1]>>

\* getSelectedPair, lines 433-438
getSelectedPair(g) == IF Len(g.selected) = 2 THEN PairKey(g.selected) ELSE <<>>

\* position of a key in lib[KEY], 0 when it has no entry
LibIndex(lib, key) ==
    IF \E n \in DOMAIN lib : lib[n].key = key
    THEN CHOOSE n \in DOMAIN lib : lib[n].key = key
    ELSE 0

\* lib[ci] = item: a new key is added last, an old key keeps its place
LibPut(lib, key, item) ==
    IF LibIndex(lib, key) = 0
    THEN Append(lib, [key |-> key, item |-> item])
    ELSE [lib EXCEPT ![LibIndex(lib, key)].item = item]

\* del tempDict[contourPair]
LibDel(lib, key) ==
    LET keep == {n \in DOMAIN lib : lib[n].key # key}
        nth(k) == CHOOSE n \in keep : Cardinality({m \in keep : m < n}) = k - 1
    IN  [k \in 1..Cardinality(keep) |-> lib[nth(k)]]

\* the ascending list of a set of row indexes
RECURSIVE SortedSeq(_)
SortedSeq(S) ==
    IF S = {} THEN <<>>
    ELSE LET m == CHOOSE x \in S : \A y \in S : x <= y
         IN  <<m>> \o SortedSeq(S \ {m})

\* the rows of the table for a glyph, lines 789-801
TableItems(g) ==
    LET cps == getContourPairs(g, Len(g.lib))
    IN  [i \in 1..Len(cps) |-> [group_index |-> i - 1, settings |-> cps[i].cinfo]]

\* lines 711-722: the contours of the selected groups become the selected
\* contours of the glyph, all other contours are deselected
GroupContours(g, rows) ==
    LET cps == getContourPairs(g, Len(g.lib))
    IN  SortedSeq({c \in DOMAIN g.contours :
                      \E r \in rows : c = cps[r + 1].conts[1] \/ c = cps[r + 1].conts[2]})

\* groupTableSelectionCallback, lines 707-730, called by the table with the
\* rows now selected: [wc, selected], selected the glyph.selectedContours
groupTableSelectionCallback(self, g, rows, fixing) ==
    [wc |-> [self EXCEPT !.tableSel = rows,
                         !.selected = [k \in 1..Cardinality(rows) |->
                                          self.settings[SortedSeq(rows)[k] + 1]],
                         !.selectionIndexes = SortedSeq(rows)],
     selected |-> IF fixing THEN g.selected ELSE GroupContours(g, rows)]

\* the table gets the selected rows `rows` and calls the callback when that
\* changes its selection
TableSelect(self, g, rows, fixing) ==
    IF rows = self.tableSel
    THEN [wc |-> self, selected |-> g.selected]
    ELSE groupTableSelectionCallback(self, g, rows, fixing)

\* lines 805-808: groupTable.setSelectedIndexes(self.selectionIndexes) with
\* self.fixing set; the rows of the list that exist are selected
Reselect(r, g) ==
    IF r.wc.selectionIndexes # <<>>
    THEN TableSelect(r.wc, [g EXCEPT !.selected = r.selected],
                     {r.wc.selectionIndexes[k] : k \in DOMAIN r.wc.selectionIndexes}
                         \cap 0..(Len(r.wc.settings) - 1),
                     TRUE)
    ELSE r

\* rebuildTableItems, lines 787-808: groupTable.set(items) keeps the
\* selected rows that still exist (keeps) or ends with no row selected
rebuildTableItems(self, g, keeps) ==
    Reselect(TableSelect([self EXCEPT !.settings = TableItems(g)], g,
                         IF keeps THEN {r \in self.tableSel : r < Len(TableItems(g))}
                         ELSE {},
                         FALSE),
             g)

\* the five settings of the controller, line 821
Settings(self) == <<self.thickness, self.distance, self.side, self.offset, self.random>>

\* editGroupsCallback, lines 811-839: [wc, lib, selected] after the handler
Edited(self, g, lib, keeps) ==
    LET r == rebuildTableItems(self, [g EXCEPT !.lib = lib], keeps)
    IN  [wc |-> r.wc, lib |-> lib, selected |-> r.selected, error |-> "none"]

AddGroup(self, g, keeps) ==
    IF Len(g.selected) = 2
    THEN LET lib == LibPut(g.lib, PairKey(g.selected), Settings(self))
         IN  Edited([self EXCEPT !.selectionIndexes = <<Len(lib) - 1>>], g, lib, keeps)
    ELSE Edited(self, g, g.lib, keeps)

DeleteGroup(self, g, keeps) ==
    Edited([self EXCEPT !.selectionIndexes = <<>>], g, LibDel(g.lib, getSelectedPair(g)),
           keeps)

\* the field of the controller a control sets, lines 733-764
SetField(self, index, value) ==
    IF index = 0 THEN [self EXCEPT !.thickness = value]
    ELSE IF index = 1 THEN [self EXCEPT !.distance = value]
    ELSE IF index = 2 THEN [self EXCEPT !.side = value]
    ELSE IF index = 3 THEN [self EXCEPT !.offset = value]
    ELSE [self EXCEPT !.random = value]

\* lines 776-778: v = list(gg[1]); v[index] = value
SetItemAll(self, cinfo, index, value) == Settings(self)
SetItem(self, cinfo, index, value) == [cinfo EXCEPT ![index + 1] = value]

\* setSelected, lines 767-784: the loop over self.selected from row k on;
\* conts is getContourPairs(self.currentGlyph) of line 769
RECURSIVE SetRows(_, _, _, _, _, _)
SetRows(self, conts, lib, k, index, value) ==
    IF k > Len(self.selected) THEN [lib |-> lib, error |-> "none"]
    ELSE LET gi == self.selected[k].group_index
         IN  IF gi >= Len(conts)
             THEN [lib |-> lib, error |-> "IndexError"]
             ELSE SetRows(self, conts,
                          LibPut(lib, PairKey(conts[gi + 1].conts),
                                 SetItem(self, conts[gi + 1].cinfo, index, value)),
                          k + 1, index, value)

\* [wc, lib, selected, error] after setSelected
SetDone(self, g, r, keeps) ==
    IF r.error # "none"
    THEN [wc |-> self, lib |-> r.lib, selected |-> g.selected, error |-> r.error]
    ELSE Edited(self, g, r.lib, keeps)

setSelected(self, g, index, value, keeps) ==
    SetDone(self, g, SetRows(self, getContourPairs(g, Len(g.lib)), g.lib, 1, index, value),
            keeps)

\* reselectTable, lines 862-871: the rows of the groups with both contours
\* selected
reselectTable(self, g) ==
    LET stp == getContourPairs(g, Len(g.lib))
        Sel == {g.selected[k] : k \in DOMAIN g.selected}
    IN  [self EXCEPT !.selectionIndexes =
            SortedSeq({io \in 0..(Len(stp) - 1) :
                          stp[io + 1].conts[1] \in Sel /\ stp[io + 1].conts[2] \in Sel})]

\* drawingSettingsChanged, lines 874-882; an absent value of info is <<>>
DrawInfo(contours, reset_glyph) == [contours |-> contours, reset_glyph |-> reset_glyph]

drawingSettingsFields(self, g, info) ==
    LET a == IF info.contours # <<>>
             THEN reselectTable([self EXCEPT !.contours = info.contours[1]], g)
             ELSE self
    IN  IF info.reset_glyph # <<>> THEN [a EXCEPT !.selectionIndexes = <<>>] ELSE a

drawingSettingsChanged(self, g, info, keeps) ==
    Edited(drawingSettingsFields(self, g, info), g, g.lib, keeps)

(***************************************************************************)
(* SpecGroups: the window controller edits the groups of one glyph.        *)
(***************************************************************************)
MaxSteps == 4      \* handler runs in one behaviour of SpecGroups

\* the value self.contours holds: woven strokes or another object
Strokes(c) == [kind |-> "strokes", val |-> c]
GlyphObject(g) == [kind |-> "glyph", val |-> g]

\* lib[KEY] of a glyph the tool was used on before: no group, the group
\* (2, 3), and with it a group that is not listed (an item of four values,
\* or a contour that was deleted)
GroupLibs ==
    {<<>>,
     <<[key |-> <<2, 3>>, item |-> <<4, 20, 0, 0, 0>>]>>,
     <<[key |-> <<1, 2>>, item |-> <<4, 20, 0, 0>>],
       [key |-> <<2, 3>>, item |-> <<4, 20, 0, 0, 0>>]>>,
     <<[key |-> <<1, 2>>, item |-> <<7, 20, 0, 0, 0>>],
       [key |-> <<3, 4>>, item |-> <<4, 20, 0, 0, 0>>],
       [key |-> <<2, 3>>, item |-> <<4, 20, 0, 0, 0>>]>>}

GroupGlyphs ==
    {[contours |-> [c \in 1..3 |-> K_short], lib |-> lib, selected |-> <<>>] :
        lib \in GroupLibs}

\* glyph.selectedContours after the user selects contours in the editor
Selections == {<<>>, <<1>>, <<1, 2>>, <<2, 1>>, <<3, 2>>, <<1, 3>>, <<1, 2, 3>>}

\* the value a control is moved to: (index, value)
ControlValues == {<<0, 7>>, <<1, 35>>, <<2, 1>>, <<3, 2>>, <<4, 3>>, <<0, 4>>}

\* StrokeScribblerWindowController.build, lines 484-690, for the glyph g
ControllerBuild(g) ==
    [thickness |-> 4, distance |-> 20, side |-> 0, offset |-> 0, random |-> 0,
     contours |-> Strokes(<<>>), settings |-> TableItems(g), selected |-> <<>>,
     selectionIndexes |-> <<>>, tableSel |-> {}]

\* what the latest handler did: the glyph and the table before it ran
Handled(handler, arg, r) ==
    [handler |-> handler, arg |-> arg, n |-> last.n + 1, error |-> r.error,
     lib |-> glyph.lib, selected |-> glyph.selected, tableSel |-> wc.tableSel]

GroupsInit ==
    /\ glyph \in GroupGlyphs
    /\ wc = ControllerBuild(glyph)
    /\ last = [handler |-> "build", arg |-> None, n |-> 0, error |-> "none",
               lib |-> glyph.lib, selected |-> <<>>, tableSel |-> {}]
    /\ phase = "groups"
    /\ pen = None /\ drawn = <<>> /\ wv = None /\ bot = None
    /\ pg = None /\ nf = None /\ ev = None

GroupsStep(handler, arg, r) ==
    /\ wc' = r.wc
    /\ glyph' = [glyph EXCEPT !.lib = r.lib, !.selected = r.selected]
    /\ last' = Handled(handler, arg, r)
    /\ UNCHANGED <<pen, phase, drawn, wv, bot, pg, nf, ev>>

\* the user selects contours in the glyph editor
SelectContours ==
    /\ phase = "groups" /\ last.n < MaxSteps
    /\ \E sel \in Selections :
           GroupsStep("select", sel,
                      [wc |-> wc, lib |-> glyph.lib, selected |-> sel, error |-> "none"])

\* the user selects rows of the group table
ClickTable ==
    /\ phase = "groups" /\ last.n < MaxSteps
    /\ \E rows \in SUBSET (0..(Len(wc.settings) - 1)) :
         /\ rows # wc.tableSel
         /\ \E r \in {groupTableSelectionCallback(wc, glyph, rows, FALSE)} :
                GroupsStep("table", rows,
                           [wc |-> r.wc, lib |-> glyph.lib, selected |-> r.selected,
                            error |-> "none"])

\* Add Contour Group: editGroupsCallback with sender.get() == 0
AddContourGroup ==
    /\ phase = "groups" /\ last.n < MaxSteps
    /\ \E keeps \in BOOLEAN : GroupsStep("add", None, AddGroup(wc, glyph, keeps))

\* Delete Contour Group: editGroupsCallback with sender.get() == 1
DeleteContourGroup ==
    /\ phase = "groups" /\ last.n < MaxSteps
    /\ \E keeps \in BOOLEAN : GroupsStep("delete", None, DeleteGroup(wc, glyph, keeps))

\* thicknessSliderCallback, distanceSliderCallback, sideCallback,
\* offsetSliderCallback, randomSliderCallback, lines 733-764
ControlChanged ==
    /\ phase = "groups" /\ last.n < MaxSteps
    /\ \E cv \in ControlValues, keeps \in BOOLEAN :
           GroupsStep("control", cv,
                      setSelected(SetField(wc, cv[1], cv[2]), glyph, cv[1], cv[2], keeps))

\* drawingSettingsChanged for an event of the drawing bot
DrawingEvent ==
    /\ phase = "groups" /\ last.n < MaxSteps
    /\ \E info \in {DrawInfo(<<Strokes(<<>>)>>, <<>>), DrawInfo(<<>>, <<glyph>>)},
          keeps \in BOOLEAN :
           GroupsStep("event", info, drawingSettingsChanged(wc, glyph, info, keeps))

GroupsNext ==
    \/ SelectContours \/ ClickTable \/ AddContourGroup \/ DeleteContourGroup
    \/ ControlChanged \/ DrawingEvent

SpecGroups == GroupsInit /\ [][GroupsNext]_vars

(***************************************************************************)
(* Properties of the stored groups (SpecGroups).                           *)
(***************************************************************************)
InGroups == phase = "groups"

\* the groups listed in the table before the latest handler ran
CpsBefore == getContourPairs([glyph EXCEPT !.lib = last.lib], Len(last.lib))

\* C26: the stored groups hold at most one entry per unordered pair of
\* contours; Add stores the group under the key of the sorted pair whatever
\* the order of the selection, a pair that has a group keeps one entry and
\* gets the new parameters, and Add with a selection of other than two
\* contours leaves the stored groups unchanged.
C26_OneGroupPerPair ==
    InGroups =>
        /\ \A i, j \in DOMAIN glyph.lib :
               i # j => {glyph.lib[i].key[1], glyph.lib[i].key[2]}
                            # {glyph.lib[j].key[1], glyph.lib[j].key[2]}
        /\ (last.handler = "add" /\ Len(last.selected) # 2) => glyph.lib = last.lib
        /\ (last.handler = "add" /\ Len(last.selected) = 2) =>
               LET key == <<Min(last.selected[1], last.selected[2]),
                            Max(last.selected[1], last.selected[2])>>
                   had == \E n \in DOMAIN last.lib :
                              {last.lib[n].key[1], last.lib[n].key[2]}
                                  = {key[1], key[2]}
               IN  /\ \E n \in DOMAIN glyph.lib :
                          /\ glyph.lib[n].key = key
                          /\ glyph.lib[n].item = Settings(wc)
                   /\ Len(glyph.lib) = IF had THEN Len(last.lib) ELSE Len(last.lib) + 1
                   /\ \A n \in DOMAIN last.lib :
                          /\ glyph.lib[n].key = last.lib[n].key
                          /\ last.lib[n].key # key => glyph.lib[n] = last.lib[n]

\* the pair (1, 2), selected as (2, 1), is added again with new parameters
C26_Witness ==
    /\ InGroups /\ last.handler = "add" /\ last.selected = <<2, 1>>
    /\ Len(last.lib) = 3 /\ Len(glyph.lib) = 3
    /\ glyph.lib[1].key = <<1, 2>>
    /\ glyph.lib[1].item # last.lib[1].item

\* C27: a change of one control writes, in the stored groups, the field of
\* that control (position 0..4 of the tuple) of the groups selected in the
\* table and nothing else; with no row selected the stored groups are
\* unchanged.
C27_ControlWritesOneField ==
    (InGroups /\ last.handler = "control") =>
        /\ last.error = "none"
        /\ Len(glyph.lib) = Len(last.lib)
        /\ \A n \in DOMAIN last.lib :
               /\ glyph.lib[n].key = last.lib[n].key
               /\ glyph.lib[n].item =
                      IF \E r \in last.tableSel :
                             /\ r < Len(CpsBefore)
                             /\ PairKey(CpsBefore[r + 1].conts) = last.lib[n].key
                      THEN [last.lib[n].item EXCEPT ![last.arg[1] + 1] = last.arg[2]]
                      ELSE last.lib[n].item
        /\ last.tableSel = {} => glyph.lib = last.lib

\* the second of two listed groups is selected and the offset is changed
C27_Witness ==
    /\ InGroups /\ last.handler = "control" /\ last.arg = <<3, 2>>
    /\ last.tableSel = {1} /\ Len(last.lib) = 3
    /\ glyph.lib[3].item = <<4, 20, 0, 2, 0>>
    /\ glyph.lib[1] = last.lib[1] /\ glyph.lib[2] = last.lib[2]

\* C28 as stated: after an Add with two contours selected, selectionIndexes
\* holds one index, the index is a row of the rebuilt table and the row is
\* the group just added.
C28_AddedRowSelected ==
    (InGroups /\ last.handler = "add" /\ Len(last.selected) = 2) =>
        /\ Len(wc.selectionIndexes) = 1
        /\ wc.selectionIndexes[1] < Len(wc.settings)
        /\ PairKey(getContourPairs(glyph, Len(glyph.lib))[wc.selectionIndexes[1] + 1].conts)
               = PairKey(last.selected)

(***************************************************************************)
(* The events between the two objects.  A low-level event is the function  *)
(* from its keyword names to their values; postEvent puts it in the list   *)
(* of the events not yet delivered, and a delivery hands all of them to the *)
(* extractor and the handler of the subscriber.                            *)
(***************************************************************************)
LowLevelEvent(key, value) == [k \in {key} |-> value]

\* lowLevelEvent.get(key): <<>> is None
Get(lowLevelEvent, key) ==
    IF key \in DOMAIN lowLevelEvent THEN <<lowLevelEvent[key]>> ELSE <<>>

\* infoSettingsExtractor, lines 1057-1072: every key is assigned for every
\* event of the list, so the values of the last event are the ones kept
infoSettingsExtractor(lowLevelEvents) ==
    IF lowLevelEvents = <<>>
    THEN Info(<<>>, <<>>, <<>>, <<>>, <<>>, <<>>, <<>>)
    ELSE LET e == lowLevelEvents[Len(lowLevelEvents)]
         IN  Info(Get(e, "thickness_value"), Get(e, "distance_value"),
                  Get(e, "side_value"), Get(e, "offset_value"),
                  Get(e, "random_value"), Get(e, "show_preview"),
                  Get(e, "color_value"))

\* drawingSettingsExtractor, lines 1075-1080
drawingSettingsExtractor(lowLevelEvents) ==
    IF lowLevelEvents = <<>>
    THEN DrawInfo(<<>>, <<>>)
    ELSE LET e == lowLevelEvents[Len(lowLevelEvents)]
         IN  DrawInfo(Get(e, "contours"), Get(e, "reset_glyph"))

\* the keyword of the event a control posts, lines 733-764
ControlKey(index) ==
    IF index = 0 THEN "thickness_value"
    ELSE IF index = 1 THEN "distance_value"
    ELSE IF index = 2 THEN "side_value"
    ELSE IF index = 3 THEN "offset_value"
    ELSE "random_value"

\* the events draw() posted, as low-level events (line 1034)
DrawEvents(posted) ==
    [i \in DOMAIN posted |-> LowLevelEvent(posted[i].key, Strokes(posted[i].val))]

(***************************************************************************)
(* SpecEvents: editor events reach the drawing bot, the controls post      *)
(* their events, and the posted events are delivered.                      *)
(***************************************************************************)
MaxEvents == 4     \* handler runs in one behaviour of SpecEvents
MaxPending == 4    \* a handler posts only while fewer events are pending

E_long == <<MoveSeg(Pt(0, 0)), LineSeg(Pt(40, 30)), EndSeg>>
E_wide == <<MoveSeg(Pt(0, 0)), LineSeg(Pt(100, 0)), EndSeg>>
EventPool == {E_long, E_wide}

EventGlyphs ==
    {[contours |-> cs, lib |-> <<[key |-> <<1, 2>>, item |-> <<4, 20, 0, 0, 0>>]>>,
      selected |-> <<>>] : cs \in [1..2 -> EventPool]}

EventsInit ==
    /\ glyph \in EventGlyphs
    /\ bot = BotBuild
    /\ wc = ControllerBuild(glyph)
    /\ ev = [draw |-> <<>>, ui |-> <<>>]
    /\ last = [handler |-> "build", n |-> 0, error |-> "none", drew |-> FALSE,
               posted |-> None, batch |-> <<>>]
    /\ phase = "events"
    /\ pen = None /\ drawn = <<>> /\ wv = None /\ pg = None /\ nf = None

\* a handler of the drawing bot that ends with self.draw()
BotDrew(handler, self, d, before, batch) ==
    /\ bot' = [self EXCEPT !.contours = d.contours]
    /\ ev' = [ev EXCEPT !.draw = @ \o before \o DrawEvents(d.posted)]
    /\ last' = [handler |-> handler, n |-> last.n + 1, error |-> d.error, drew |-> TRUE,
                posted |-> IF d.posted = <<>> THEN None ELSE Strokes(d.posted[1].val),
                batch |-> batch]

\* a handler that does not call draw()
NoDraw(handler) ==
    last' = [handler |-> handler, n |-> last.n + 1, error |-> "none", drew |-> FALSE,
             posted |-> None, batch |-> <<>>]

CanPost == phase = "events" /\ last.n < MaxEvents /\ Len(ev.draw) < MaxPending

\* glyphEditorDidSetGlyph, lines 932-941
EditorDidSetGlyph ==
    /\ CanPost
    /\ \E d \in {draw(bot, glyph)} :
           BotDrew("glyphEditorDidSetGlyph", bot, d,
                   <<LowLevelEvent("reset_glyph", "currentGlyph")>>, <<>>)
    /\ UNCHANGED <<pen, phase, drawn, wv, glyph, pg, nf, wc>>

\* glyphEditorGlyphDidChange, lines 951-955, after an edit of one contour
EditorGlyphDidChange ==
    /\ CanPost
    /\ \E id \in 1..2, c \in EventPool :
         /\ glyph.contours[id] # c
         /\ glyph' = [glyph EXCEPT !.contours[id] = c]
         /\ \E d \in {draw(bot, glyph')} :
                BotDrew("glyphEditorGlyphDidChange", bot, d,
                        <<LowLevelEvent("reset_glyph", "currentGlyph")>>, <<>>)
    /\ UNCHANGED <<pen, phase, drawn, wv, pg, nf, wc>>

\* glyphEditorDidMouseDrag, lines 958-962, a drag that moved one contour
EditorDidMouseDrag ==
    /\ CanPost
    /\ \E id \in 1..2, c \in EventPool :
         /\ glyph.contours[id] # c
         /\ glyph' = [glyph EXCEPT !.contours[id] = c]
         /\ \E d \in {draw(bot, glyph')} :
                BotDrew("glyphEditorDidMouseDrag", bot, d,
                        <<LowLevelEvent("reset_glyph", "currentGlyph")>>, <<>>)
    /\ UNCHANGED <<pen, phase, drawn, wv, pg, nf, wc>>

\* glyphEditorGlyphDidChangeSelection, lines 944-948
EditorDidChangeSelection ==
    /\ CanPost
    /\ \E sel \in {<<>>, <<1>>, <<1, 2>>} :
         /\ sel # glyph.selected
         /\ glyph' = [glyph EXCEPT !.selected = sel]
         /\ ev' = [ev EXCEPT !.draw =
                      IF sel # <<>>
                      THEN Append(@, LowLevelEvent("contours", GlyphObject("currentGlyph")))
                      ELSE @]
    /\ NoDraw("glyphEditorGlyphDidChangeSelection")
    /\ UNCHANGED <<pen, phase, drawn, wv, bot, pg, nf, wc>>

CanPostUi == phase = "events" /\ last.n < MaxEvents /\ Len(ev.ui) < MaxPending

\* the slider and side callbacks, lines 733-764
ControlCallback ==
    /\ CanPostUi
    /\ \E cv \in ControlValues, keeps \in BOOLEAN :
         \E r \in {setSelected(SetField(wc, cv[1], cv[2]), glyph, cv[1], cv[2], keeps)} :
             /\ wc' = r.wc
             /\ glyph' = [glyph EXCEPT !.lib = r.lib, !.selected = r.selected]
             /\ ev' = [ev EXCEPT !.ui = Append(@, LowLevelEvent(ControlKey(cv[1]), cv[2]))]
    /\ NoDraw("control")
    /\ UNCHANGED <<pen, phase, drawn, wv, bot, pg, nf>>

\* previewCallback, lines 858-859
previewCallback ==
    /\ CanPostUi
    /\ \E v \in {0, 1} : ev' = [ev EXCEPT !.ui = Append(@, LowLevelEvent("show_preview", v))]
    /\ NoDraw("previewCallback")
    /\ UNCHANGED <<pen, phase, drawn, wv, glyph, bot, pg, nf, wc>>

\* the pending UI events are delivered: infoSettingsExtractor, settingsChanged
DeliverSettings ==
    /\ phase = "events" /\ last.n < MaxEvents /\ ev.ui # <<>>
    /\ \E self \in {settingsChangedFields(bot, infoSettingsExtractor(ev.ui))} :
         \E d \in {draw(self, glyph)} :
             /\ bot' = [self EXCEPT !.contours = d.contours]
             /\ ev' = [draw |-> ev.draw \o DrawEvents(d.posted), ui |-> <<>>]
             /\ last' = [handler |-> "settingsChanged", n |-> last.n + 1,
                         error |-> d.error, drew |-> TRUE,
                         posted |-> IF d.posted = <<>> THEN None
                                    ELSE Strokes(d.posted[1].val),
                         batch |-> ev.ui]
    /\ UNCHANGED <<pen, phase, drawn, wv, glyph, pg, nf, wc>>

\* the pending drawing events are delivered: drawingSettingsExtractor,
\* drawingSettingsChanged
DeliverDrawing ==
    /\ phase = "events" /\ last.n < MaxEvents /\ ev.draw # <<>>
    /\ \E keeps \in BOOLEAN :
         \E r \in {drawingSettingsChanged(wc, glyph, drawingSettingsExtractor(ev.draw),
                                          keeps)} :
             /\ wc' = r.wc
             /\ glyph' = [glyph EXCEPT !.selected = r.selected]
    /\ ev' = [ev EXCEPT !.draw = <<>>]
    /\ last' = [handler |-> "drawingSettingsChanged", n |-> last.n + 1, error |-> "none",
                drew |-> FALSE, posted |-> None, batch |-> ev.draw]
    /\ UNCHANGED <<pen, phase, drawn, wv, bot, pg, nf>>

EventsNext ==
    \/ EditorDidSetGlyph \/ EditorGlyphDidChange \/ EditorDidMouseDrag
    \/ EditorDidChangeSelection \/ ControlCallback \/ previewCallback
    \/ DeliverSettings \/ DeliverDrawing

SpecEvents == EventsInit /\ [][EventsNext]_vars

(***************************************************************************)
(* Properties of the events (SpecEvents).                                  *)
(***************************************************************************)
InEvents == phase = "events"

\* the strokes of the glyph as it is now, with its group parameters
FreshContours == draw([bot EXCEPT !.preview = 1], glyph).contours

\* C22 as stated: whatever the preview flag, the stroke list a draw() holds
\* and posts is the list built by this draw() from the glyph and the group
\* parameters as they are now; it holds no stroke of an earlier draw().
C22_DrawPostsFreshStrokes ==
    (InEvents /\ last.drew /\ last.error = "none") =>
        /\ last.posted = Strokes(FreshContours)
        /\ bot.contours = FreshContours

\* C24 as stated: after any sequence of editor and UI events the value the
\* window controller holds in contours is a list of woven point sequences
\* posted by a draw().
C24_ControllerHoldsStrokes ==
    InEvents => wc.contours.kind = "strokes"

\* the field of the drawing bot a keyword of a UI event is stored in
BotField(self, key) ==
    IF key = "thickness_value" THEN self.thickness
    ELSE IF key = "distance_value" THEN self.distance
    ELSE IF key = "side_value" THEN self.side
    ELSE IF key = "offset_value" THEN self.offset
    ELSE IF key = "random_value" THEN self.random
    ELSE IF key = "show_preview" THEN self.preview
    ELSE self.color

\* C25 as stated: every setting value posted by an event of a batch is
\* applied by settingsChanged: for every keyword of every event of the
\* batch the field of the drawing bot holds the value of the last event of
\* the batch that carries the keyword.
C25_BatchValuesApplied ==
    (InEvents /\ last.handler = "settingsChanged") =>
        \A i \in DOMAIN last.batch :
            \A key \in DOMAIN last.batch[i] :
                LET carriers == {j \in DOMAIN last.batch : key \in DOMAIN last.batch[j]}
                IN  BotField(bot, key) = last.batch[LastOf(carriers)][key]

====
